---- MODULE Spec2Model ----
(***************************************************************************)
(* Model of scripts/analyze_structure.py: the Atomic Design structure      *)
(* analyzer.  The file system under <src>/components is the input; one     *)
(* run of main() walks it and builds an AnalysisReport.                    *)
(***************************************************************************)
EXTENDS Integers, Sequences, FiniteSets, TLC

(* ------------------------------ bounds -------------------------------- *)
\* directories below the three tier directories
MaxSubDirs == 1
\* files in the whole tree
MaxFiles == 2
\* largest hook / function-pattern count of a file text
MaxCount == 3

(* ----------------------------- constants ------------------------------ *)
\* "if hook_count > 2 and len(function_matches) > 2"
LogicThreshold == 2

\* expected_dirs / the levels of _analyze_components, in order
Levels == <<"atoms", "molecules", "organisms">>

LevelSet == {Levels[i] : i \in 1..Len(Levels)}

\* file names, split at the dots: "Button.test.tsx" is <<"Button","test","tsx">>
\* and the hidden file ".tsx" is <<"", "tsx">>
FileNames ==
    { <<"Button", "tsx">>, <<"Card", "jsx">>, <<"Button", "test", "tsx">>,
      <<"index", "ts">>, <<"", "tsx">> }

COMPONENT_EXTENSIONS == {"tsx", "jsx"}

TEST_PATTERNS ==
    { <<"test", "tsx">>, <<"test", "jsx">>, <<"spec", "tsx">>, <<"spec", "jsx">> }

BARREL_FILES ==
    { <<"index", "ts">>, <<"index", "tsx">>, <<"index", "js">>, <<"index", "jsx">> }

(* ------------------------- the file system ---------------------------- *)
\* Directory nodes: 0 is <src>/components, 1..3 are the tier entries
\* components/atoms, components/molecules, components/organisms, and
\* 4..3+MaxSubDirs are directories below them.
NumLevels == Len(Levels)

Nodes == 1..(NumLevels + MaxSubDirs)

SubNodes == (NumLevels + 1)..(NumLevels + MaxSubDirs)

Kinds == {"absent", "file", "dir"}

\* what the entry of a level is in the trees explored: an entry that is a
\* file is analyzed as a directory without files is
LevelKinds == {"absent", "dir"}

VARIABLES
    srcExists,      \* os.path.exists(src_path)
    rootKind,       \* what <src>/components is on disk
    kind,           \* kind[t], t in 1..3: what components/<Levels[t]> is on disk
    parent,         \* parent[n], n a sub node: the directory holding n, 0 if absent
    listing,        \* listing[n]: the names of the regular files directly in n
    pc,             \* position of the run
    violations,     \* report.violations
    components_found,
    components_with_tests,
    components_with_barrels,
    levelIdx,       \* index in Levels of the level being analyzed
    component_dirs, \* result of _find_component_dirs for the current level
    dirIdx,         \* index in component_dirs of the unit being analyzed
    pending,        \* entries of the unit not yet visited by "for file in files"
    curFile,        \* the file the two checks are called with, taken alone
    readable,       \* whether read_text of curFile succeeds
    counts,         \* <<hook_count, len(function_matches)>> of its text
    refs,           \* the level names whose import pattern its text matches
    printed,        \* the group headers print_report wrote, in order
    exitCode        \* argument of sys.exit, -1 while running

vars == << srcExists, rootKind, kind, parent, listing, pc, violations,
           components_found, components_with_tests, components_with_barrels,
           levelIdx, component_dirs, dirIdx, pending, curFile, readable, counts, refs,
           printed, exitCode >>

textVars == << readable, counts, refs >>

fsVars == << srcExists, rootKind, kind, parent, listing >>

treeVars == << srcExists, rootKind, kind, parent >>

reportVars == << violations, components_found, components_with_tests,
                 components_with_barrels >>

\* Path.exists() of components/<Levels[t]>
Exists(t) == kind[t] # "absent"

IsDir(n) == IF n <= NumLevels THEN kind[n] = "dir" ELSE parent[n] # 0

\* the sub directories directly in n, in the order the listing gives them
Children(n) == {c \in SubNodes : parent[c] = n}

RECURSIVE LevelOf(_)
\* index of the tier directory node n lies under
LevelOf(n) == IF n <= NumLevels THEN n ELSE LevelOf(parent[n])

(* ---------------------------- file names ------------------------------ *)
Last(s) == s[Len(s)]

\* f.endswith(tuple(COMPONENT_EXTENSIONS)): the name ends with ".tsx" or ".jsx"
EndsWithComponentExt(f) == Len(f) >= 2 /\ Last(f) \in COMPONENT_EXTENSIONS

\* any(f.endswith(p) for p in TEST_PATTERNS): the name ends with ".test.tsx", ...
EndsWithTestPattern(f) ==
    Len(f) >= 3 /\ <<f[Len(f) - 1], f[Len(f)]>> \in TEST_PATTERNS

\* Path.suffix in COMPONENT_EXTENSIONS: the suffix is the text from the last dot
\* on, and is empty when that dot is the first character of the name
SuffixIsComponentExt(f) ==
    /\ Len(f) >= 2
    /\ Last(f) \in COMPONENT_EXTENSIONS
    /\ (Len(f) >= 3 \/ f[1] # "")

\* has_component of _find_component_dirs
HasComponent(files) ==
    \E f \in files : EndsWithComponentExt(f) /\ ~EndsWithTestPattern(f)

\* the filter of the "for file in files" loop of _analyze_component
IsCheckedFile(f) == SuffixIsComponentExt(f) /\ ~EndsWithTestPattern(f)

\* has_barrel that knows the JavaScript barrel names only
HasBarrelJsOnly(file_names) ==
    (file_names \cap {<<"index", "js">>, <<"index", "jsx">>}) # {}

\* has_barrel
HasBarrel(file_names) == (file_names \cap BARREL_FILES) # {}

\* has_test
HasTest(file_names) == \E f \in file_names : EndsWithTestPattern(f)

(* ------------------------------ os.walk ------------------------------- *)
RECURSIVE WalkAll(_)
RECURSIVE Walk(_)
\* the directories os.walk yields from n, top down
Walk(n) == <<n>> \o WalkAll(Children(n))

\* the walks of the directories ds, one after the other
WalkAll(ds) ==
    IF ds = {} THEN <<>>
    ELSE LET d == CHOOSE x \in ds : \A y \in ds : x <= y
         IN  Walk(d) \o WalkAll(ds \ {d})

\* _find_component_dirs that looks only below the level directory
FindComponentDirsBelow(t, files) ==
    IF kind[t] = "dir"
    THEN SelectSeq(Tail(Walk(t)), LAMBDA d : HasComponent(files[d]))
    ELSE <<>>

\* _find_component_dirs(components_path / Levels[t]), files[d] being the names
\* of the files in d; os.walk of an entry that is no directory yields nothing
FindComponentDirs(t, files) ==
    IF kind[t] = "dir"
    THEN SelectSeq(Walk(t), LAMBDA d : HasComponent(files[d]))
    ELSE <<>>

(* ------------------------------ report -------------------------------- *)
NoFile == <<>>

\* a path: the directory node (0 is components/) and, for a file, its name
Path(dir, file) == [dir |-> dir, file |-> file]

Msg(text, a, b, m, n) == [text |-> text, a |-> a, b |-> b, m |-> m, n |-> n]

Violation(type, path, message, severity) ==
    [type |-> type, path |-> path, message |-> message, severity |-> severity]

\* has_errors with all() in place of any()
HasErrorsAll(vs) == \A i \in 1..Len(vs) : vs[i].severity = "error"

\* AnalysisReport.has_errors
HasErrors(vs) == \E i \in 1..Len(vs) : vs[i].severity = "error"

\* str.capitalize of a level name
Capitalize(level) ==
    CASE level = "atoms" -> "Atoms"
      [] level = "molecules" -> "Molecules"
      [] level = "organisms" -> "Organisms"

\* forbidden_imports with the direction of the rule turned round
ForbiddenImportsInverted(level) ==
    CASE level = "atoms" -> <<>>
      [] level = "molecules" -> <<"atoms">>
      [] level = "organisms" -> <<"atoms", "molecules">>

\* forbidden_imports.get(level, []), in list order
ForbiddenImports(level) ==
    CASE level = "atoms" -> <<"molecules", "organisms">>
      [] level = "molecules" -> <<"organisms">>
      [] level = "organisms" -> <<>>

(* ---------------------------- file texts ------------------------------ *)
\* What the checks see of a text: whether read_text succeeds, hook_count (the
\* sum of content.count(hook) over STATE_HOOKS) and len(function_matches) (the
\* matches of the three LOGIC_PATTERNS), and, per level name, whether
\* re.search of the import pattern for that name finds a match.
\* The counts a text can have: at the threshold, and the largest
Counts == {LogicThreshold, MaxCount}

NoCounts == <<0, 0>>

\* the texts the files of a run hold: an unreadable one, and the readable ones
Texts ==
    {[readable |-> FALSE, counts |-> NoCounts, refs |-> {}]} \cup
    [readable : {TRUE}, counts : Counts \X Counts, refs : SUBSET LevelSet]

\* _check_component_logic with >= in place of >
LogicViolationsAtLeast(d, f, canRead, h, n) ==
    IF canRead /\ h >= LogicThreshold /\ n >= LogicThreshold
    THEN << Violation("logic", Path(d, f),
                      Msg("Component has {} hooks and {} functions. Consider extracting logic to a custom hook.",
                          "", "", h, n),
                      "warning") >>
    ELSE <<>>

\* the violations _check_component_logic adds for file f of directory d, whose
\* text has hook_count h and n function matches
LogicViolations(d, f, canRead, h, n) ==
    IF ~canRead THEN <<>>
    ELSE IF h > LogicThreshold /\ n > LogicThreshold
    THEN << Violation("logic", Path(d, f),
                      Msg("Component has {} hooks and {} functions. Consider extracting logic to a custom hook.",
                          "", "", h, n),
                      "warning") >>
    ELSE <<>>

DependencyViolation(d, f, level, forbidden) ==
    Violation("dependency", Path(d, f),
              Msg("{} should not import from {}", Capitalize(level), forbidden, 0, 0),
              "error")

\* the violations _check_imports adds for file f of directory d at that level,
\* matched being the level names whose pattern the text matches
ImportViolations(d, f, level, canRead, matched) ==
    IF ~canRead THEN <<>>
    ELSE LET forb == ForbiddenImports(level)
             hits == SelectSeq(forb, LAMBDA x : x \in matched)
         IN  [i \in 1..Len(hits) |-> DependencyViolation(d, f, level, hits[i])]

(* ---------------------------- print_report ---------------------------- *)
RECURSIVE ByType(_, _)
\* by_type after the loop "by_type.setdefault(v.type, []).append(v)": a dict
\* keeps its keys in the order they were first inserted
ByType(vs, by) ==
    IF vs = <<>> THEN by
    ELSE LET v == Head(vs)
             at == {i \in 1..Len(by) : by[i].vtype = v.type}
         IN  IF at = {}
             THEN ByType(Tail(vs), Append(by, [vtype |-> v.type, members |-> <<v>>]))
             ELSE LET i == CHOOSE j \in at : TRUE
                  IN  ByType(Tail(vs),
                             [by EXCEPT ![i].members = Append(@, v)])

\* print_report that walks type_titles instead of by_type
GroupHeadersByTitle(vs) ==
    LET titles == <<"structure", "barrel", "test", "logic", "dependency">>
        found == SelectSeq(titles, LAMBDA k : \E i \in 1..Len(vs) : vs[i].type = k)
    IN  [i \in 1..Len(found) |->
            [vtype |-> found[i],
             count |-> Cardinality({j \in 1..Len(vs) : vs[j].type = found[i]})]]

\* the group headers print_report writes: type and printed count, in order
GroupHeaders(vs) ==
    LET by == ByType(vs, <<>>)
    IN  [i \in 1..Len(by) |-> [vtype |-> by[i].vtype, count |-> Len(by[i].members)]]

(* ------------------------------- Init --------------------------------- *)
\* where a file of level t can be: a directory node under the level directory
\* and a name
Places(t) ==
    { [dir |-> n, name |-> f] :
        n \in {m \in Nodes : IsDir(m) /\ LevelOf(m) = t}, f \in FileNames }

NoPlace == [dir |-> 0, name |-> NoFile]

\* the trees on disk: every sub directory lies in a directory, and the sub
\* directories that exist are the first ones, each nested in the one before
TreeOK(par, knd) ==
    \A n \in SubNodes :
        /\ par[n] # 0 =>
             IF par[n] <= NumLevels THEN knd[par[n]] = "dir" ELSE par[par[n]] # 0
        /\ par[n] # 0 /\ n - 1 \in SubNodes => par[n] = n - 1

Init ==
    /\ srcExists \in BOOLEAN
    /\ rootKind \in Kinds
    /\ ~srcExists => rootKind = "absent"
    /\ kind \in [1..NumLevels -> LevelKinds]
    /\ rootKind # "dir" => \A t \in 1..NumLevels : kind[t] = "absent"
    /\ parent \in [SubNodes -> 0..(NumLevels + MaxSubDirs)]
    /\ \A n \in SubNodes : parent[n] < n
    /\ TreeOK(parent, kind)
    /\ listing = [n \in Nodes |-> {}]
    /\ pc = "main"
    /\ violations = <<>>
    /\ components_found = 0
    /\ components_with_tests = 0
    /\ components_with_barrels = 0
    /\ levelIdx = 0
    /\ component_dirs = <<>>
    /\ dirIdx = 0
    /\ pending = {}
    /\ curFile = NoFile
    /\ readable = FALSE
    /\ counts = NoCounts
    /\ refs = {}
    /\ printed = <<>>
    /\ exitCode = -1

(* ------------------------------ actions ------------------------------- *)
\* main(), up to the call of analyze()
Main ==
    /\ pc = "main"
    /\ IF ~srcExists
       THEN /\ exitCode' = 1
            /\ pc' = "exited"
       ELSE /\ pc' = "analyze"
            /\ UNCHANGED exitCode
    /\ UNCHANGED << fsVars, reportVars, levelIdx, component_dirs, dirIdx,
                    pending, curFile, textVars, printed >>

\* analyze() without the return after the missing components/ directory
AnalyzeNoReturn ==
    /\ pc = "analyze"
    /\ violations' =
         (IF rootKind = "absent"
          THEN Append(violations,
                  Violation("structure", Path(0, NoFile),
                            Msg("components/ directory not found", "", "", 0, 0),
                            "error"))
          ELSE violations)
    /\ pc' = "structure"
    /\ UNCHANGED << fsVars, components_found, components_with_tests,
                    components_with_barrels, levelIdx, component_dirs, dirIdx,
                    pending, curFile, textVars, printed, exitCode >>

\* analyze(): the check of components_path
Analyze ==
    /\ pc = "analyze"
    /\ IF rootKind = "absent"
       THEN /\ violations' = Append(violations,
                  Violation("structure", Path(0, NoFile),
                            Msg("components/ directory not found", "", "", 0, 0),
                            "error"))
            /\ pc' = "print"
       ELSE /\ pc' = "structure"
            /\ UNCHANGED violations
    /\ UNCHANGED << fsVars, components_found, components_with_tests,
                    components_with_barrels, levelIdx, component_dirs, dirIdx,
                    pending, curFile, textVars, printed, exitCode >>

\* the violation _check_top_level_structure adds for a missing level
MissingDir(t) ==
    Violation("structure", Path(t, NoFile),
              Msg("Missing {}/ directory", Levels[t], "", 0, 0), "warning")

\* _check_top_level_structure that returns at the first missing directory
StructureViolationsFirstOnly ==
    LET missing == SelectSeq([t \in 1..NumLevels |-> t], LAMBDA t : ~Exists(t))
    IN  [i \in 1..(IF Len(missing) > 0 THEN 1 ELSE 0) |-> MissingDir(missing[i])]

\* the violations of _check_top_level_structure, in the order of expected_dirs
StructureViolations ==
    LET missing == SelectSeq([t \in 1..NumLevels |-> t], LAMBDA t : ~Exists(t))
    IN  [i \in 1..Len(missing) |-> MissingDir(missing[i])]

CheckTopLevelStructure ==
    /\ pc = "structure"
    /\ violations' = violations \o StructureViolations
    /\ levelIdx' = 1
    /\ pc' = "level"
    /\ UNCHANGED << fsVars, components_found, components_with_tests,
                    components_with_barrels, component_dirs, dirIdx,
                    pending, curFile, textVars, printed, exitCode >>

\* the files the tree holds so far
NumFiles == Cardinality({ pl \in [dir : Nodes, name : FileNames] :
                            pl.name \in listing[pl.dir] })

\* _analyze_components: the loop "for level in [...]" goes on after level t
LeaveLevel(t) ==
    IF t < NumLevels
    THEN levelIdx' = t + 1 /\ pc' = "level"
    ELSE levelIdx' = t /\ pc' = "print"

\* _analyze_components: one turn of "for level in [...]", up to the first
\* component directory.  The directories under the level are listed now, and
\* hold whatever files the tree has there.
AnalyzeLevel ==
    /\ pc = "level"
    /\ IF ~Exists(levelIdx)
       THEN /\ LeaveLevel(levelIdx)
            /\ UNCHANGED << listing, component_dirs, dirIdx >>
       ELSE \E slots \in [1..(MaxFiles - NumFiles) -> Places(levelIdx) \cup {NoPlace}] :
            /\ listing' = [n \in Nodes |->
                             IF IsDir(n) /\ LevelOf(n) = levelIdx
                             THEN {slots[i].name :
                                     i \in {j \in DOMAIN slots : slots[j].dir = n}}
                             ELSE listing[n]]
            /\ component_dirs' = FindComponentDirs(levelIdx, listing')
            /\ IF component_dirs' = <<>>
               THEN LeaveLevel(levelIdx) /\ UNCHANGED dirIdx
               ELSE dirIdx' = 1 /\ pc' = "unit" /\ UNCHANGED levelIdx
    /\ UNCHANGED << treeVars, reportVars, pending, curFile, textVars, printed,
                    exitCode >>

\* a count that is left as it was
CountKept(n) == n

\* "self.report.components_found += 1"
CountComponent(n) == n + 1

\* _analyze_component(component_dir, level): the count and the listing of the
\* directory
AnalyzeComponent ==
    /\ pc = "unit"
    /\ components_found' = CountComponent(components_found)
    /\ pending' = listing[component_dirs[dirIdx]]
    /\ pc' = "barrel"
    /\ UNCHANGED << fsVars, violations, components_with_tests,
                    components_with_barrels, levelIdx, component_dirs, dirIdx,
                    curFile, textVars, printed, exitCode >>

\* _analyze_component: "Check for barrel"
CheckBarrel ==
    /\ pc = "barrel"
    /\ LET d == component_dirs[dirIdx]
       IN  IF HasBarrel(listing[d])
           THEN /\ components_with_barrels' = components_with_barrels + 1
                /\ UNCHANGED violations
           ELSE /\ violations' = Append(violations,
                      Violation("barrel", Path(d, NoFile),
                                Msg("Missing barrel file (index.ts)", "", "", 0, 0),
                                "warning"))
                /\ UNCHANGED components_with_barrels
    /\ pc' = "test"
    /\ UNCHANGED << fsVars, components_found, components_with_tests, levelIdx,
                    component_dirs, dirIdx, pending, curFile, textVars, printed,
                    exitCode >>

\* _analyze_component: "Check for tests"
CheckTests ==
    /\ pc = "test"
    /\ LET d == component_dirs[dirIdx]
       IN  IF HasTest(listing[d])
           THEN /\ components_with_tests' = components_with_tests + 1
                /\ UNCHANGED violations
           ELSE /\ violations' = Append(violations,
                      Violation("test", Path(d, NoFile),
                                Msg("Missing test file", "", "", 0, 0),
                                "warning"))
                /\ UNCHANGED components_with_tests
    /\ pc' = "files"
    /\ UNCHANGED << fsVars, components_found, components_with_barrels, levelIdx,
                    component_dirs, dirIdx, pending, curFile, textVars, printed,
                    exitCode >>

\* the turn of "for file in files" with the two checks called the other way
\* round
CheckFileImportsFirst ==
    /\ pc = "files"
    /\ \E f \in {g \in pending : IsCheckedFile(g)} :
         /\ pending' = pending \ {f}
         /\ \E text \in Texts :
              violations' = violations
                  \o ImportViolations(component_dirs[dirIdx], f,
                                      Levels[levelIdx], text.readable, text.refs)
                  \o LogicViolations(component_dirs[dirIdx], f, text.readable,
                                     text.counts[1], text.counts[2])
    /\ UNCHANGED << fsVars, components_found, components_with_tests,
                    components_with_barrels, levelIdx, component_dirs, dirIdx,
                    pc, curFile, textVars, printed, exitCode >>

\* _analyze_component: one turn of "for file in files" that passes the filter,
\* with the calls of _check_component_logic and _check_imports.  iterdir gives
\* the entries in an order of its own; the entries the filter rejects are
\* passed over.  The text is whatever the file holds.
CheckFile ==
    /\ pc = "files"
    /\ \E f \in {g \in pending : IsCheckedFile(g)} :
         /\ pending' = pending \ {f}
         /\ \E text \in Texts :
              violations' = violations
                  \o LogicViolations(component_dirs[dirIdx], f, text.readable,
                                     text.counts[1], text.counts[2])
                  \o ImportViolations(component_dirs[dirIdx], f,
                                      Levels[levelIdx], text.readable, text.refs)
    /\ UNCHANGED << fsVars, components_found, components_with_tests,
                    components_with_barrels, levelIdx, component_dirs, dirIdx,
                    pc, curFile, textVars, printed, exitCode >>

\* _analyze_component returns after the last file: the loop over the component
\* directories moves on, and after the last of these the loop over the levels
LeaveComponent ==
    /\ pc = "files"
    /\ {g \in pending : IsCheckedFile(g)} = {}
    /\ pending' = {}
    /\ IF dirIdx < Len(component_dirs)
       THEN dirIdx' = dirIdx + 1 /\ pc' = "unit" /\ UNCHANGED levelIdx
       ELSE LeaveLevel(levelIdx) /\ UNCHANGED dirIdx
    /\ UNCHANGED << fsVars, reportVars, component_dirs, curFile, textVars,
                    printed, exitCode >>

\* main(), from print_report(report) on:
\* sys.exit(1 if report.has_errors() else 0)
PrintReportAndExit ==
    /\ pc = "print"
    /\ printed' = GroupHeaders(violations)
    /\ exitCode' = (IF HasErrors(violations) THEN 1 ELSE 0)
    /\ pc' = "exited"
    /\ UNCHANGED << fsVars, reportVars, levelIdx, component_dirs, dirIdx,
                    pending, curFile, textVars >>

Next ==
    \/ Main
    \/ Analyze
    \/ CheckTopLevelStructure
    \/ AnalyzeLevel
    \/ AnalyzeComponent
    \/ CheckBarrel
    \/ CheckTests
    \/ CheckFile
    \/ LeaveComponent
    \/ PrintReportAndExit

Spec == Init /\ [][Next]_vars

(* ------------------- the two checks of one file, alone ----------------- *)
\* the texts a file can hold, as the checks see them
FileCounts == 0..MaxCount

\* A run that has come to the first file of the first unit of a level with an
\* empty report: components/ holds the three level directories, and the unit
\* is the level directory with the file, a barrel and a test.  The file holds
\* any text.
FileInit ==
    /\ srcExists = TRUE
    /\ rootKind = "dir"
    /\ kind = [t \in 1..NumLevels |-> "dir"]
    /\ parent = [n \in SubNodes |-> 0]
    /\ levelIdx \in 1..NumLevels
    /\ curFile \in {f \in FileNames : IsCheckedFile(f)}
    /\ listing = [n \in Nodes |->
                    IF n = levelIdx
                    THEN {curFile, <<"index", "ts">>, <<"Button", "test", "tsx">>}
                    ELSE {}]
    /\ component_dirs = <<levelIdx>>
    /\ dirIdx = 1
    /\ pending = {}
    /\ components_found = 1
    /\ components_with_barrels = 1
    /\ components_with_tests = 1
    /\ violations = <<>>
    /\ readable \in BOOLEAN
    /\ counts \in (IF readable THEN FileCounts \X FileCounts ELSE {NoCounts})
    /\ refs \in (IF readable THEN SUBSET LevelSet ELSE {{}})
    /\ pc = "logic"
    /\ printed = <<>>
    /\ exitCode = -1

\* _check_component_logic(file, level)
CheckComponentLogic ==
    /\ pc = "logic"
    /\ violations' = violations \o
           LogicViolations(component_dirs[dirIdx], curFile, readable,
                           counts[1], counts[2])
    /\ pc' = "imports"
    /\ UNCHANGED << fsVars, components_found, components_with_tests,
                    components_with_barrels, levelIdx, component_dirs, dirIdx,
                    pending, curFile, textVars, printed, exitCode >>

\* _check_imports(file, level)
CheckImports ==
    /\ pc = "imports"
    /\ violations' = violations \o
           ImportViolations(component_dirs[dirIdx], curFile, Levels[levelIdx],
                            readable, refs)
    /\ pc' = "checked"
    /\ UNCHANGED << fsVars, components_found, components_with_tests,
                    components_with_barrels, levelIdx, component_dirs, dirIdx,
                    pending, curFile, textVars, printed, exitCode >>

FileNext ==
    \/ CheckComponentLogic
    \/ CheckImports

SpecFile == FileInit /\ [][FileNext]_vars

(* --------------------------- the properties --------------------------- *)
\* the run has ended with a report: main() has printed it and exited
Finished == srcExists /\ pc = "exited"

\* the directories the tree holds under the level directories
TreeDirs == {d \in Nodes : IsDir(d)}

\* a name with a component extension that is no test/spec file
IsComponentName(f) ==
    /\ Len(f) >= 2
    /\ f[Len(f)] \in {"tsx", "jsx"}
    /\ ~(Len(f) >= 3 /\ f[Len(f) - 1] \in {"test", "spec"})

\* the directories that directly contain a component source file
Units == {d \in TreeDirs : \E f \in listing[d] : IsComponentName(f)}

\* the positions of the violations of kind k
OfKind(k) == {i \in 1..Len(violations) : violations[i].type = k}

\* the positions of the violations of kind k recorded for file f of directory d
At(d, f, k) ==
    {i \in OfKind(k) : violations[i].path.dir = d /\ violations[i].path.file = f}

\* the positions of the violations of severity error
Errors == {i \in 1..Len(violations) : violations[i].severity = "error"}

\* C1: when <src>/components does not exist, the run goes straight from the
\* check to the end: the report holds one violation, of kind structure and
\* severity error, and the three counters stay 0.
C1_RootMissingShortCircuits ==
    (srcExists /\ rootKind = "absent") =>
        /\ components_found = 0
        /\ components_with_tests = 0
        /\ components_with_barrels = 0
        /\ pc \in {"main", "analyze", "print", "exited"}
        /\ Len(violations) <= 1
        /\ Finished =>
             /\ Len(violations) = 1
             /\ violations[1].type = "structure"
             /\ violations[1].severity = "error"

C1_Witness ==
    /\ srcExists /\ rootKind = "absent" /\ pc = "exited"
    /\ Len(violations) = 1 /\ components_found = 0

\* C2: when <src>/components exists, the finished report holds one structure
\* violation per level whose path does not exist, each a warning naming the
\* level, in the order atoms, molecules, organisms and before everything
\* else; no structure violation for a level that exists; and every unit of
\* the levels that are there is analyzed.  With all three missing, the three
\* warnings are the whole report.
C2_MissingLevelsAreWarnings ==
    (Finished /\ rootKind # "absent") =>
        LET absent == {t \in 1..3 : kind[t] = "absent"}
            n == Cardinality(absent)
        IN  /\ OfKind("structure") = 1..n
            /\ \A i \in 1..n :
                 /\ violations[i].severity = "warning"
                 /\ violations[i].path.dir \in absent
                 /\ violations[i].path.file = <<>>
                 /\ violations[i].message.a = Levels[violations[i].path.dir]
            /\ \A i, j \in 1..n :
                 i < j => violations[i].path.dir < violations[j].path.dir
            /\ components_found = Cardinality(Units)
            /\ n = 3 => Len(violations) = 3

C2_Witness ==
    /\ Finished /\ rootKind = "dir"
    /\ kind[1] = "absent" /\ kind[2] = "dir" /\ kind[3] = "absent"
    /\ components_found = 2
    /\ Len(violations) > 2

\* C3: after the import check of a readable file of a unit of level T,
\* and for every level F: the report holds a dependency violation for that
\* file naming T (capitalized) and F exactly if F is forbidden for T (atoms:
\* molecules and organisms; molecules: organisms; organisms: none) and the
\* text has an import reference to F; it is an error, and there is one of it.
C3_Forbidden(T, F) ==
    \/ T = "atoms" /\ F \in {"molecules", "organisms"}
    \/ T = "molecules" /\ F = "organisms"

C3_Named(T) ==
    CASE T = "atoms" -> "Atoms"
      [] T = "molecules" -> "Molecules"
      [] T = "organisms" -> "Organisms"

C3_DependencyIffForbiddenImport ==
    (pc = "checked" /\ readable) =>
        LET d == component_dirs[dirIdx]
            T == Levels[levelIdx]
            deps == At(d, curFile, "dependency")
        IN  /\ \A F \in LevelSet :
                 LET hits == {i \in deps : violations[i].message.b = F}
                 IN  Cardinality(hits) =
                        (IF C3_Forbidden(T, F) /\ F \in refs THEN 1 ELSE 0)
            /\ \A i \in deps :
                 /\ violations[i].severity = "error"
                 /\ violations[i].message.a = C3_Named(T)

C3_Witness ==
    /\ pc = "checked" /\ readable
    /\ Levels[levelIdx] = "atoms"
    /\ refs = {"atoms", "molecules", "organisms"}
    /\ Cardinality(At(component_dirs[dirIdx], curFile, "dependency")) = 2

\* C4: the process exits with 1 exactly when the path given does not exist or
\* the report holds at least one violation of severity error, and with 0
\* otherwise; a report of warnings only exits with 0.
C4_ExitCode ==
    pc = "exited" =>
        exitCode = (IF ~srcExists \/ Errors # {} THEN 1 ELSE 0)

C4_Witness ==
    /\ pc = "exited" /\ exitCode = 0
    /\ Len(violations) >= 3
    /\ \A i \in 1..Len(violations) : violations[i].severity = "warning"

\* the position of directory d in the walk of its level
UnitRank(d) ==
    LET w == Walk(LevelOf(d))
    IN  CHOOSE i \in 1..Len(w) : w[i] = d

\* the positions of the violations of the units
UnitViolations == {i \in 1..Len(violations) : violations[i].type # "structure"}

\* violation i is of a unit that comes before the unit of violation j
UnitBefore(i, j) ==
    LET a == violations[i].path.dir
        b == violations[j].path.dir
    IN  \/ LevelOf(a) < LevelOf(b)
        \/ LevelOf(a) = LevelOf(b) /\ UnitRank(a) < UnitRank(b)

SameUnit(i, j) == violations[i].path.dir = violations[j].path.dir

CheckRank(k) ==
    CASE k = "barrel" -> 1
      [] k = "test" -> 2
      [] k = "logic" -> 3
      [] k = "dependency" -> 4

C5_FileRank(k) == IF k \in {"logic", "dependency"} THEN 3 ELSE CheckRank(k)

KindRank(k) == IF k = "structure" THEN 0 ELSE CheckRank(k)

C6_Counted ==
    /\ {printed[i].vtype : i \in DOMAIN printed} =
          {violations[i].type : i \in DOMAIN violations}
    /\ \A i \in DOMAIN printed :
          printed[i].count = Cardinality(OfKind(printed[i].vtype))

C6_FixedGroupOrder ==
    (srcExists /\ pc = "exited") =>
        /\ C6_Counted
        /\ \A i, j \in DOMAIN printed :
             i < j => KindRank(printed[i].vtype) < KindRank(printed[j].vtype)

\* C6, amended: print_report writes one group per kind that occurs in the
\* report, each with the number of violations of its kind, in the order in
\* which the kinds first occur in the report.
FirstOf(k) == CHOOSE i \in OfKind(k) : \A j \in OfKind(k) : i <= j

C6_FirstOccurrenceGroupOrder ==
    (srcExists /\ pc = "exited") =>
        /\ C6_Counted
        /\ \A i, j \in DOMAIN printed :
             i < j => FirstOf(printed[i].vtype) < FirstOf(printed[j].vtype)

C6_Witness ==
    /\ srcExists /\ pc = "exited"
    /\ \E i, j \in DOMAIN printed :
         i < j /\ printed[i].vtype = "dependency" /\ printed[j].vtype = "logic"
    /\ \E i \in DOMAIN printed : printed[i].count > 1

\* C7: in every state of a run, and over every step of it, the three counters
\* are not negative, componentsWithTests and componentsWithBarrels are at most
\* componentsFound, and no counter decreases.
C7_Bounded ==
    /\ 0 <= components_with_tests /\ components_with_tests <= components_found
    /\ 0 <= components_with_barrels /\ components_with_barrels <= components_found

C7_CountersBounded ==
    [][ /\ C7_Bounded
        /\ C7_Bounded'
        /\ components_found' >= components_found
        /\ components_with_tests' >= components_with_tests
        /\ components_with_barrels' >= components_with_barrels ]_vars

C7_Witness ==
    /\ pc = "barrel"
    /\ components_found = 2
    /\ components_with_barrels = 0
    /\ components_with_tests = 0

\* C8: for every analyzed unit the barrel check either counts the unit in
\* componentsWithBarrels (a file of the unit has a barrel name) or records one
\* barrel warning at the unit, and the test check either counts it in
\* componentsWithTests (a file name ends with a test/spec suffix) or records
\* one test warning at the unit.  So the counter and the number of violations
\* add up to componentsFound once the check of the unit has run.
C8_BarrelNames ==
    {<<"index", "ts">>, <<"index", "tsx">>, <<"index", "js">>, <<"index", "jsx">>}

C8_HasTestName(d) ==
    \E f \in listing[d] :
        /\ Len(f) >= 3
        /\ f[Len(f) - 1] \in {"test", "spec"}
        /\ f[Len(f)] \in {"tsx", "jsx"}

C8_PresenceChecks ==
    /\ components_with_barrels + Cardinality(OfKind("barrel")) =
          components_found - (IF pc = "barrel" THEN 1 ELSE 0)
    /\ components_with_tests + Cardinality(OfKind("test")) =
          components_found - (IF pc \in {"barrel", "test"} THEN 1 ELSE 0)
    /\ \A i \in OfKind("barrel") \cup OfKind("test") :
          violations[i].severity = "warning" /\ violations[i].path.file = <<>>
    /\ Finished =>
          \A d \in Units :
             /\ Cardinality(At(d, <<>>, "barrel")) =
                   (IF listing[d] \cap C8_BarrelNames # {} THEN 0 ELSE 1)
             /\ Cardinality(At(d, <<>>, "test")) =
                   (IF C8_HasTestName(d) THEN 0 ELSE 1)

C8_Witness ==
    /\ Finished
    /\ components_found = 1
    /\ components_with_barrels = 1
    /\ components_with_tests = 0
    /\ OfKind("barrel") = {}
    /\ Cardinality(OfKind("test")) = 1

\* C9: when <src>/components exists, componentsFound of the finished report
\* is the number of directories, at any depth under the level directories
\* and these included, that directly contain a file with a component
\* extension that is no test/spec file: a directory without one is not
\* counted and the directories in it still are, and a counted directory in a
\* counted directory is counted too.  Each is analyzed with the level it
\* lies under.
C9_ComponentsFound ==
    (Finished /\ rootKind # "absent") =>
        /\ components_found = Cardinality(Units)
        /\ \A i \in OfKind("barrel") \cup OfKind("test") :
              violations[i].path.dir \in Units
        /\ \A i \in OfKind("dependency") :
              /\ violations[i].path.dir \in Units
              /\ violations[i].message.a =
                    C3_Named(Levels[LevelOf(violations[i].path.dir)])

C9_Witness ==
    /\ Finished
    /\ \E d \in Units : d > 3 /\ parent[d] \in Units
    /\ components_found = 2

\* C10: after the logic check of a readable file with primitive count h
\* and function-pattern count f, the report holds for that file one logic
\* warning carrying h and f if h > 2 and f > 2, and no logic violation
\* otherwise; no file ever has more than one.
C10_LogicIffBothAboveTwo ==
    /\ (pc \in {"imports", "checked"} /\ readable) =>
          LET d == component_dirs[dirIdx]
              logic == At(d, curFile, "logic")
          IN  IF counts[1] > 2 /\ counts[2] > 2
              THEN /\ Cardinality(logic) = 1
                   /\ \A i \in logic :
                        /\ violations[i].severity = "warning"
                        /\ violations[i].message.m = counts[1]
                        /\ violations[i].message.n = counts[2]
              ELSE logic = {}
    /\ \A i, j \in OfKind("logic") :
          violations[i].path = violations[j].path => i = j

C10_Witness ==
    /\ pc = "imports" /\ readable
    /\ counts[1] > 2 /\ counts[2] > 2
    /\ Cardinality(At(component_dirs[dirIdx], curFile, "logic")) = 1

====
